---- MODULE Spec2Model ----
(***************************************************************************)
(* A model of ts-randomstring: the character set provider                  *)
(* (src/characterSetHandler.ts) and the rejection-sampling string          *)
(* generator in its blocking and callback variants (src/randomString.ts).  *)
(*                                                                         *)
(* A JavaScript string is modelled as a sequence of one-character strings, *)
(* a Buffer as a sequence of bytes 0..255, and an optional value           *)
(* (`x?: T`) as the empty sequence (undefined) or a one-element sequence.  *)
(***************************************************************************)
EXTENDS Integers, Sequences, FiniteSets, TLC

\* Largest requested length the generation model enumerates.
MaxLength == 2

\* Largest number of bytes the byte source hands out in one behaviour.
MaxTape == 6

\* Largest value the global binding named `length` takes when it exists.
MaxGlobalLength == 3

\* Largest alphabet size the threshold computation is applied to.
MaxAlphabetSize == 64

\* Largest number of bytes one of several concurrent calls receives.
MaxCallBytes == 4

----------------------------------------------------------------------------
(* src/characterSetHandler.ts *)

CharacterSetType ==
    {"Alphanumeric", "Alphabetic", "Numeric", "Hex", "Binary", "Octal"}

Capitalisation == {"Mixed", "Uppercase", "Lowercase"}

Capitalization == Capitalisation

LowerLetters ==
    << "a", "b", "c", "d", "e", "f", "g", "h", "i", "j", "k", "l", "m",
       "n", "o", "p", "q", "r", "s", "t", "u", "v", "w", "x", "y", "z" >>

UpperLetters ==
    << "A", "B", "C", "D", "E", "F", "G", "H", "I", "J", "K", "L", "M",
       "N", "O", "P", "Q", "R", "S", "T", "U", "V", "W", "X", "Y", "Z" >>

\* String.prototype.toUpperCase on one character of the ASCII pools.
toUpperCaseChar(c) ==
    IF \E i \in 1..26 : LowerLetters[i] = c
    THEN UpperLetters[CHOOSE i \in 1..26 : LowerLetters[i] = c]
    ELSE c

\* String.prototype.toLowerCase on one character of the ASCII pools.
toLowerCaseChar(c) ==
    IF \E i \in 1..26 : UpperLetters[i] = c
    THEN LowerLetters[CHOOSE i \in 1..26 : UpperLetters[i] = c]
    ELSE c

toUpperCase(s) == [i \in 1..Len(s) |-> toUpperCaseChar(s[i])]

toLowerCase(s) == [i \in 1..Len(s) |-> toLowerCaseChar(s[i])]

numbers == << "0", "1", "2", "3", "4", "5", "6", "7", "8", "9" >>

charsLower == LowerLetters

charsUpper == toUpperCase(charsLower)

\* A plausible slip: the hex letters written in upper case.
composeCharSetHexUpper(charSetType) ==
    CASE charSetType = "Alphanumeric" -> numbers \o charsLower \o charsUpper
      [] charSetType = "Alphabetic"   -> charsLower \o charsUpper
      [] charSetType = "Numeric"      -> numbers
      [] charSetType = "Hex"          -> numbers \o << "A", "B", "C", "D", "E", "F" >>
      [] charSetType = "Binary"       -> << "0", "1" >>
      [] charSetType = "Octal"        -> << "0", "1", "2", "3", "4", "5", "6", "7" >>
      [] OTHER                        -> << >>

\* The switch of getCharacterSet: the pool before capitalisation is applied.
\* No case matching leaves charSet at its initial "".
composeCharSet(charSetType) ==
    CASE charSetType = "Alphanumeric" -> numbers \o charsLower \o charsUpper
      [] charSetType = "Alphabetic"   -> charsLower \o charsUpper
      [] charSetType = "Numeric"      -> numbers
      [] charSetType = "Hex"          -> numbers \o << "a", "b", "c", "d", "e", "f" >>
      [] charSetType = "Binary"       -> << "0", "1" >>
      [] charSetType = "Octal"        -> << "0", "1", "2", "3", "4", "5", "6", "7" >>
      [] OTHER                        -> << >>

getCharacterSet(charSetType, capitalisation) ==
    LET charSet == composeCharSet(charSetType)
    IN  IF capitalisation = "Uppercase" THEN toUpperCase(charSet)
        ELSE IF capitalisation = "Lowercase" THEN toLowerCase(charSet)
        ELSE charSet

----------------------------------------------------------------------------
(* src/randomString.ts: options and the pure helpers *)

\* The `??` operator on an optional value.
Coalesce(opt, default) == IF opt = << >> THEN default ELSE opt[1]

Optional(S) == {<< >>} \cup {<< v >> : v \in S}

\* The merged interface RandomStringOptions: both spellings are declared.
RandomStringOptions(lengths) ==
    [length : Optional(lengths),
     charSetType : Optional(CharacterSetType),
     capitalisation : Optional(Capitalisation),
     capitalization : Optional(Capitalization)]

\* A plausible slip: the defaults applied as a block, so that one missing
\* option discards the ones that were given.
parseOptionsAllOrNothing(options) ==
    IF options.length = << >> \/ options.charSetType = << >>
           \/ options.capitalisation = << >>
    THEN << 32, "Alphanumeric", "Mixed" >>
    ELSE << options.length[1], options.charSetType[1], options.capitalisation[1] >>

parseOptions(options) ==
    << Coalesce(options.length, 32),
       Coalesce(options.charSetType, "Alphanumeric"),
       Coalesce(options.capitalisation, "Mixed") >>

\* A plausible slip: the threshold taken from the largest byte value, 255.
getMaxByteFrom255(length) == 255 - (255 % length)

getMaxByte(length) == 256 - (256 % length)

\* String.prototype.charAt: the empty string outside the string.
charAt(s, index) == IF index >= 0 /\ index < Len(s) THEN << s[index + 1] >> ELSE << >>

\* Math.ceil(a / b) for a >= 0, b > 0.
ceilDiv(a, b) == (a + b - 1) \div b

----------------------------------------------------------------------------
(* src/randomString.ts: the generator *)

VARIABLES
    options,          \* the options object both variants are called with
    hasGlobalLength,  \* whether the free identifier `length` of
                      \* generateStringAsync resolves to a global binding
    globalLength,     \* the value of that binding when it exists
    tape,             \* the bytes the byte source has handed out so far,
                      \* as one stream; each variant reads it from the start
    syncPc,           \* generate: "idle", "randomBytes" (inside the while
                      \* body, at the byte request), "returned"
    length,           \* generate's local `length`
    charSet,          \* generate's local `charSet`
    generated,        \* generate's local `generated`
    syncUsed,         \* history: the bytes that appended a character
    syncPos,          \* how many bytes of the tape generate has received
    syncReqs,         \* history: the sizes generate asked the source for
    syncFailed,       \* history: the byte source threw during generate
    syncResult,       \* the value generate returned
    asyncPc,          \* generateAsync: "idle", "waiting" (a randomBytes
                      \* request is pending), "done", "threw"
    state,            \* the GeneratedStringState object of the async call
    asyncPos,         \* how many bytes of the tape the callbacks received
    asyncReqs,        \* history: the sizes generateStringAsync asked for
    asyncFailed,      \* history: the byte source reported an error
    cbCalls,          \* history: the invocations of the caller's callback
    asyncThrown,      \* the exception that ended the async call, if any
    stage,            \* position of the option-resolution walk
    parsed,           \* what parseOptions returned
    resolved,         \* what getCharacterSet returned
    alphabetSize,     \* the argument getMaxByte is applied to
    threshold,        \* what getMaxByte returned (0: not yet applied)
    heap,             \* the GeneratedStringState objects of concurrent
                      \* generateAsync calls, by reference
    calls             \* the concurrent generateAsync calls

syncVars ==
    << syncPc, length, charSet, generated, syncUsed, syncPos, syncReqs,
       syncFailed, syncResult >>

asyncVars ==
    << asyncPc, state, asyncPos, asyncReqs, asyncFailed, cbCalls, asyncThrown >>

resolveVars == << stage, parsed, resolved >>

maxByteVars == << alphabetSize, threshold >>

concurrentVars == << heap, calls >>

vars ==
    << options, hasGlobalLength, globalLength, tape, syncVars, asyncVars,
       resolveVars, maxByteVars, concurrentVars >>

\* The template string of generate's error return, with the Error's text.
ErrorText ==
    << "g", "e", "t", "R", "a", "n", "d", "o", "m", "B", "y", "t", "e",
       "s", "S", "a", "f", "e", " ", "i", "n", "t", "e", "r", "n", "a",
       "l", " ", "e", "r", "r", "o", "r", " ", ":", ":", " ", "E", "r",
       "r", "o", "r" >>

\* Representative byte values for an alphabet: the first byte, the last
\* accepted byte and the first rejected byte (255 when none is rejected).
ByteSamples(maxByte) ==
    {0, maxByte - 1, IF maxByte < 256 THEN maxByte ELSE 255}

\* The byte values the source draws from in a behaviour.
TapeBytes ==
    LET p == parseOptions(options)
    IN  ByteSamples(getMaxByte(Len(getCharacterSet(p[2], p[3]))))

\* The tapes that agree with `t` and hold at least `upTo` bytes.
Extensions(t, upTo) ==
    IF Len(t) >= upTo THEN {t}
    ELSE {t \o e : e \in [1..(upTo - Len(t)) -> TapeBytes]}

\* The loop of generateString from index i on. `st` is the state object with
\* the history field `used` (the bytes that reached line 203).
RECURSIVE generateStringFrom(_, _, _)
generateStringFrom(buffer, i, st) ==
    IF i < Len(buffer) /\ Len(st.generated) < st.length
    THEN LET randomByte == buffer[i + 1]
         IN  IF randomByte < st.maxByte
             THEN generateStringFrom(buffer, i + 1,
                      [st EXCEPT
                          !.generated = @ \o charAt(st.charSet, randomByte % Len(st.charSet)),
                          !.used = Append(@, randomByte)])
             ELSE generateStringFrom(buffer, i + 1, st)
    ELSE st

\* A plausible slip: the loop runs over the whole buffer, without the test
\* of the accumulated length against state.length.
RECURSIVE generateStringWholeBufferFrom(_, _, _)
generateStringWholeBufferFrom(buffer, i, st) ==
    IF i < Len(buffer)
    THEN LET randomByte == buffer[i + 1]
         IN  IF randomByte < st.maxByte
             THEN generateStringWholeBufferFrom(buffer, i + 1,
                      [st EXCEPT
                          !.generated = @ \o charAt(st.charSet, randomByte % Len(st.charSet)),
                          !.used = Append(@, randomByte)])
             ELSE generateStringWholeBufferFrom(buffer, i + 1, st)
    ELSE st

generateStringWholeBuffer(buffer, st) == generateStringWholeBufferFrom(buffer, 0, st)

\* A plausible slip: the threshold test written `<=`, which accepts the first
\* biased byte.
RECURSIVE generateStringInclusiveFrom(_, _, _)
generateStringInclusiveFrom(buffer, i, st) ==
    IF i < Len(buffer) /\ Len(st.generated) < st.length
    THEN LET randomByte == buffer[i + 1]
         IN  IF randomByte <= st.maxByte
             THEN generateStringInclusiveFrom(buffer, i + 1,
                      [st EXCEPT
                          !.generated = @ \o charAt(st.charSet, randomByte % Len(st.charSet)),
                          !.used = Append(@, randomByte)])
             ELSE generateStringInclusiveFrom(buffer, i + 1, st)
    ELSE st

generateStringInclusive(buffer, st) == generateStringInclusiveFrom(buffer, 0, st)

\* A plausible slip: the loop index started at 1, skipping the first byte.
generateStringSkipFirst(buffer, st) == generateStringFrom(buffer, 1, st)

\* A plausible slip: every round starts again from the empty string.
generateStringFresh(buffer, st) ==
    generateStringFrom(buffer, 0, [st EXCEPT !.generated = << >>, !.used = << >>])

\* generateString mutates `st` and returns st.generated: the operator gives
\* the mutated state object.
generateString(buffer, st) == generateStringFrom(buffer, 0, st)

\* A plausible slip: the division truncated instead of rounded up.
generateRequestSizeFloor(len, maxByte) == (len * 256) \div maxByte

\* The size of generate's byte request (line 110).
generateRequestSize(len, maxByte) == ceilDiv(len * 256, maxByte)

Lengths == {-1} \cup (0..MaxLength)

\* The options objects of the generation model: length and charSetType
\* stated, the capitalisation stated under exactly one of its two spellings.
Requests ==
    {o \in [length : {<< n >> : n \in Lengths},
            charSetType : {<< t >> : t \in CharacterSetType},
            capitalisation : Optional(Capitalisation),
            capitalization : Optional(Capitalization)] :
        (o.capitalisation = << >>) # (o.capitalization = << >>)}

NoState == [generated |-> << >>, charSet |-> << >>, length |-> 0, maxByte |-> 0, used |-> << >>]

ResolveIdle == stage = "unused" /\ parsed = << >> /\ resolved = << >>

MaxByteIdle == alphabetSize = 0 /\ threshold = 0

ConcurrentIdle == heap = << >> /\ calls = << >>

Init ==
    /\ options \in Requests
    /\ hasGlobalLength \in BOOLEAN
    /\ globalLength \in (IF hasGlobalLength THEN 0..MaxGlobalLength ELSE {0})
    /\ tape = << >>
    /\ syncPc = "idle" /\ length = 0 /\ charSet = << >> /\ generated = << >>
    /\ syncUsed = << >> /\ syncPos = 0 /\ syncReqs = << >>
    /\ syncFailed = FALSE /\ syncResult = << >>
    /\ asyncPc = "idle" /\ state = NoState /\ asyncPos = 0 /\ asyncReqs = << >>
    /\ asyncFailed = FALSE /\ cbCalls = << >> /\ asyncThrown = "none"
    /\ ResolveIdle
    /\ MaxByteIdle
    /\ ConcurrentIdle

\* generate up to its first byte request: with nothing to generate the while
\* loop is skipped and `generated` is returned at once.
Generate ==
    /\ syncPc = "idle"
    /\ LET p == parseOptions(options)
           cs == getCharacterSet(p[2], p[3])
       IN  /\ length' = p[1]
           /\ charSet' = cs
           /\ generated' = << >>
           /\ IF 0 < p[1]
              THEN /\ syncPc' = "randomBytes"
                   /\ syncReqs' = << generateRequestSize(p[1], getMaxByte(Len(cs))) >>
                   /\ syncResult' = syncResult
              ELSE /\ syncPc' = "returned"
                   /\ syncReqs' = syncReqs
                   /\ syncResult' = << >>
    /\ UNCHANGED << maxByteVars, concurrentVars, options, hasGlobalLength, globalLength, tape, syncUsed,
                    syncPos, syncFailed, asyncVars, resolveVars >>

\* One pass of the while body with a buffer from the byte source, up to the
\* next byte request or the return.
GenerateRound ==
    /\ syncPc = "randomBytes"
    /\ LET maxByte == getMaxByte(Len(charSet))
           n == syncReqs[Len(syncReqs)]
       IN  /\ syncPos + n <= MaxTape
           /\ \E t \in Extensions(tape, syncPos + n) :
                LET buffer == SubSeq(t, syncPos + 1, syncPos + n)
                    st == generateString(buffer,
                              [generated |-> generated, charSet |-> charSet,
                               length |-> length, maxByte |-> maxByte,
                               used |-> syncUsed])
                IN  /\ tape' = t
                    /\ syncPos' = syncPos + n
                    /\ generated' = st.generated
                    /\ syncUsed' = st.used
                    /\ IF Len(st.generated) < length
                       THEN /\ syncPc' = "randomBytes"
                            /\ syncReqs' = Append(syncReqs,
                                   generateRequestSize(length, getMaxByte(Len(charSet))))
                            /\ syncResult' = syncResult
                       ELSE /\ syncPc' = "returned"
                            /\ syncReqs' = syncReqs
                            /\ syncResult' = st.generated
    /\ UNCHANGED << maxByteVars, concurrentVars, options, hasGlobalLength, globalLength, length, charSet,
                    syncFailed, asyncVars, resolveVars >>

\* The while body when randomBytes throws: getRandomBytesSafe hands the Error
\* back and generate returns the error text.
GenerateError ==
    /\ syncPc = "randomBytes"
    /\ syncFailed' = TRUE
    /\ syncResult' = ErrorText
    /\ syncPc' = "returned"
    /\ UNCHANGED << maxByteVars, concurrentVars, options, hasGlobalLength, globalLength, tape, length,
                    charSet, generated, syncUsed, syncPos, syncReqs,
                    asyncVars, resolveVars >>

\* generateStringAsync (lines 217-218): the byte request. The identifier
\* `length` is bound by neither the method nor the module: evaluating it
\* throws a ReferenceError unless a global of that name exists.
generateStringAsyncRequest ==
    IF hasGlobalLength
    THEN /\ asyncReqs' = Append(asyncReqs, globalLength)
         /\ asyncPc' = "waiting"
         /\ asyncThrown' = asyncThrown
    ELSE /\ asyncReqs' = asyncReqs
         /\ asyncPc' = "threw"
         /\ asyncThrown' = "ReferenceError"

\* generateAsync: builds the state object and calls generateStringAsync.
\* A callback-free call: it runs between, never inside, a blocking generate.
GenerateAsync ==
    /\ asyncPc = "idle"
    /\ syncPc # "randomBytes"
    /\ LET p == parseOptions(options)
           cs == getCharacterSet(p[2], p[3])
       IN  state' = [generated |-> << >>, charSet |-> cs, length |-> p[1],
                     maxByte |-> getMaxByte(Len(cs)), used |-> << >>]
    /\ generateStringAsyncRequest
    /\ UNCHANGED << maxByteVars, concurrentVars, options, hasGlobalLength, globalLength, tape, syncVars,
                    asyncPos, asyncFailed, cbCalls, resolveVars >>

\* The callback handed to randomBytes (lines 218-229), run with the
\* arguments (error, buffer) of the byte source: an optional Error and an
\* optional Buffer.
RandomBytesCallback(error, buffer) ==
    LET afterError ==
            IF error # << >>
            THEN Append(cbCalls, [error |-> error, generated |-> << >>])
            ELSE cbCalls
    IN  IF buffer = << >>
        THEN \* generateString reads buffer.length of undefined
             /\ cbCalls' = afterError
             /\ asyncPc' = "threw"
             /\ asyncThrown' = "TypeError"
             /\ UNCHANGED << state, asyncReqs >>
        ELSE LET st == generateString(buffer[1], state)
                 newGenerated == st.generated
             IN  /\ state' = st
                 /\ IF Len(newGenerated) < globalLength
                    THEN /\ cbCalls' = afterError
                         /\ generateStringAsyncRequest
                    ELSE /\ cbCalls' = Append(afterError,
                                [error |-> << >>, generated |-> << newGenerated >>])
                         /\ asyncPc' = "done"
                         /\ UNCHANGED << asyncReqs, asyncThrown >>

\* The byte source completes the pending request with a buffer.
RandomBytesArrive ==
    /\ asyncPc = "waiting"
    /\ syncPc # "randomBytes"
    /\ LET n == asyncReqs[Len(asyncReqs)]
       IN  /\ asyncPos + n <= MaxTape
           /\ \E t \in Extensions(tape, asyncPos + n) :
                /\ tape' = t
                /\ asyncPos' = asyncPos + n
                /\ RandomBytesCallback(<< >>, << SubSeq(t, asyncPos + 1, asyncPos + n) >>)
    /\ UNCHANGED << maxByteVars, concurrentVars, options, hasGlobalLength, globalLength, syncVars,
                    asyncFailed, resolveVars >>

\* The byte source completes the pending request with an error and no buffer.
RandomBytesFail ==
    /\ asyncPc = "waiting"
    /\ syncPc # "randomBytes"
    /\ asyncFailed' = TRUE
    /\ RandomBytesCallback(<< "Error" >>, << >>)
    /\ UNCHANGED << maxByteVars, concurrentVars, options, hasGlobalLength, globalLength, tape, syncVars,
                    asyncPos, resolveVars >>

Next ==
    \/ Generate
    \/ GenerateRound
    \/ GenerateError
    \/ GenerateAsync
    \/ RandomBytesArrive
    \/ RandomBytesFail

Spec == Init /\ [][Next]_vars

----------------------------------------------------------------------------
(* Option parsing and alphabet resolution on their own: the two pure steps  *)
(* every call starts with, applied to every options object of the          *)
(* interface.                                                              *)

OptionLengths == Lengths \cup {32}

InitResolve ==
    /\ options \in RandomStringOptions(OptionLengths)
    /\ stage = "options" /\ parsed = << >> /\ resolved = << >>
    /\ hasGlobalLength = FALSE /\ globalLength = 0 /\ tape = << >>
    /\ syncPc = "idle" /\ length = 0 /\ charSet = << >> /\ generated = << >>
    /\ syncUsed = << >> /\ syncPos = 0 /\ syncReqs = << >>
    /\ syncFailed = FALSE /\ syncResult = << >>
    /\ asyncPc = "idle" /\ state = NoState /\ asyncPos = 0 /\ asyncReqs = << >>
    /\ asyncFailed = FALSE /\ cbCalls = << >> /\ asyncThrown = "none"
    /\ MaxByteIdle
    /\ ConcurrentIdle

\* Line 104 / 143: const [length, charSetType, capitalisation] = parseOptions(options)
ParseOptions ==
    /\ stage = "options"
    /\ parsed' = parseOptions(options)
    /\ stage' = "parsed"
    /\ UNCHANGED << maxByteVars, concurrentVars, options, hasGlobalLength, globalLength, tape, syncVars,
                    asyncVars, resolved >>

\* Line 105 / 144: const charSet = getCharacterSet(charSetType, capitalisation)
ResolveCharacterSet ==
    /\ stage = "parsed"
    /\ resolved' = getCharacterSet(parsed[2], parsed[3])
    /\ stage' = "resolved"
    /\ UNCHANGED << maxByteVars, concurrentVars, options, hasGlobalLength, globalLength, tape, syncVars,
                    asyncVars, parsed >>

NextResolve == ParseOptions \/ ResolveCharacterSet

SpecResolve == InitResolve /\ [][NextResolve]_vars

----------------------------------------------------------------------------
(* Properties *)

Range(f) == {f[i] : i \in DOMAIN f}

\* The request as the caller wrote it (the generation model always states
\* the length).
RequestedLength == options.length[1]

BytesSucceeded == ~syncFailed

\* C1: for a positive requested length and a byte source that never fails,
\* the string the blocking generate returns has exactly the requested length.
C1_ExactLength ==
    (syncPc = "returned" /\ BytesSucceeded /\ RequestedLength >= 1)
        => Len(syncResult) = RequestedLength

\* C1 witness: a two-character request returned after a second refill round.
C1_Witness ==
    /\ syncPc = "returned" /\ BytesSucceeded
    /\ RequestedLength = 2 /\ Len(syncReqs) >= 2 /\ Len(syncResult) = 2

\* Every character of `out` is the alphabet character its contributing byte
\* selects, and every contributing byte is below the threshold.
Sampled(out, used, alphabet, maxByte) ==
    /\ Len(used) = Len(out)
    /\ \A i \in 1..Len(out) :
          /\ out[i] \in Range(alphabet)
          /\ used[i] < maxByte
          /\ out[i] = alphabet[(used[i] % Len(alphabet)) + 1]

\* C2: in every state of a generation, blocking or callback, every character
\* accumulated so far belongs to the alphabet resolved for the call and was
\* contributed by a byte below maxByte; no byte >= maxByte contributed.
C2_AlphabetAndRejection ==
    /\ syncPc # "idle" =>
          Sampled(generated, syncUsed, charSet, getMaxByte(Len(charSet)))
    /\ asyncPc # "idle" =>
          Sampled(state.generated, state.used, state.charSet, state.maxByte)

\* C2 witness: a blocking generation that produced two characters although
\* the source delivered a byte at or above the threshold.
C2_Witness ==
    /\ syncPc = "returned" /\ BytesSucceeded /\ Len(generated) = 2
    /\ \E i \in 1..syncPos : tape[i] >= getMaxByte(Len(charSet))

\* C3: when the byte source fails during the blocking generate, generate
\* does not hand back a string as its result.
C3_FailureNotReturnedAsString == syncFailed => syncPc # "returned"

AsyncEnded == asyncPc \in {"done", "threw"}

SuccessCall(c) == c.error = << >> /\ c.generated # << >>

FailureCall(c) == c.error # << >> /\ c.generated = << >>

\* C4: the callback of generateAsync is never invoked twice, and once the
\* generation has ended it has been invoked exactly once, with (no error,
\* string) or with (error, no string).
C4_CallbackExactlyOnce ==
    /\ Len(cbCalls) <= 1
    /\ AsyncEnded =>
          /\ Len(cbCalls) = 1
          /\ SuccessCall(cbCalls[1]) \/ FailureCall(cbCalls[1])

\* C5: once the byte source has reported a failure to the callback variant,
\* the error went to the callback with no string, the absent buffer was not
\* consumed (nothing was thrown reading it), and no request is pending.
C5_AsyncFailureStops ==
    asyncFailed =>
        /\ cbCalls = << [error |-> << "Error" >>, generated |-> << >>] >>
        /\ asyncThrown = "none"
        /\ asyncPc # "waiting"

\* C6: for the same request and the same byte stream, with no request
\* failing, the callback variant asks for the same sizes as the blocking
\* variant and delivers the string the blocking variant returns.
C6_AsyncEquivalentToSync ==
    (/\ syncPc = "returned" /\ AsyncEnded
     /\ ~syncFailed /\ ~asyncFailed /\ RequestedLength >= 1)
        => /\ asyncReqs = syncReqs
           /\ cbCalls = << [error |-> << >>, generated |-> << syncResult >>] >>

NoDuplicates(str) ==
    \A i, j \in 1..Len(str) : str[i] = str[j] => i = j

\* C7: for every (charSetType, capitalisation) pair getCharacterSet returns
\* between 2 and 62 characters, none of them twice.
C7_UniqueCharacters ==
    stage = "resolved" =>
        /\ Len(resolved) >= 2 /\ Len(resolved) <= 62
        /\ NoDuplicates(resolved)

\* The bytes 0..255 that make generateString append the character c.
SelectingBytes(c, alphabet) ==
    {b \in 0..255 :
        generateString(<< b >>,
            [generated |-> << >>, charSet |-> alphabet, length |-> 1,
             maxByte |-> getMaxByte(Len(alphabet)), used |-> << >>]).generated = << c >>}

\* C8: for every pair, every distinct character of the resolved alphabet is
\* selected by the same number of byte values, maxByte / k of them.
C8_Unbiased ==
    stage = "resolved" =>
        \A c \in Range(resolved) :
            Cardinality(SelectingBytes(c, resolved))
                = getMaxByte(Len(resolved)) \div Len(resolved)

\* The alphabet a call with these options samples from.
ResolvedFor(o) ==
    LET p == parseOptions(o) IN getCharacterSet(p[2], p[3])

\* The same options object written with the other spelling.
OtherSpelling(o) ==
    [o EXCEPT !.capitalisation = o.capitalization,
              !.capitalization = o.capitalisation]

\* C9: an options object that states the capitalisation under one spelling
\* resolves to the same alphabet as the one stating it under the other.
C9_SpellingsEquivalent ==
    (/\ stage = "resolved"
     /\ (options.capitalisation = << >>) # (options.capitalization = << >>))
        => resolved = ResolvedFor(OtherSpelling(options))

\* The alphabets of the reference composition, written out.
Reference(charSetType, capitalisation) ==
    CASE charSetType = "Alphanumeric" /\ capitalisation = "Mixed" ->
             << "0", "1", "2", "3", "4", "5", "6", "7", "8", "9", "a",
                "b", "c", "d", "e", "f", "g", "h", "i", "j", "k", "l",
                "m", "n", "o", "p", "q", "r", "s", "t", "u", "v", "w",
                "x", "y", "z", "A", "B", "C", "D", "E", "F", "G", "H",
                "I", "J", "K", "L", "M", "N", "O", "P", "Q", "R", "S",
                "T", "U", "V", "W", "X", "Y", "Z" >>
      [] charSetType = "Alphanumeric" /\ capitalisation = "Uppercase" ->
             << "0", "1", "2", "3", "4", "5", "6", "7", "8", "9", "A",
                "B", "C", "D", "E", "F", "G", "H", "I", "J", "K", "L",
                "M", "N", "O", "P", "Q", "R", "S", "T", "U", "V", "W",
                "X", "Y", "Z", "A", "B", "C", "D", "E", "F", "G", "H",
                "I", "J", "K", "L", "M", "N", "O", "P", "Q", "R", "S",
                "T", "U", "V", "W", "X", "Y", "Z" >>
      [] charSetType = "Alphanumeric" /\ capitalisation = "Lowercase" ->
             << "0", "1", "2", "3", "4", "5", "6", "7", "8", "9", "a",
                "b", "c", "d", "e", "f", "g", "h", "i", "j", "k", "l",
                "m", "n", "o", "p", "q", "r", "s", "t", "u", "v", "w",
                "x", "y", "z", "a", "b", "c", "d", "e", "f", "g", "h",
                "i", "j", "k", "l", "m", "n", "o", "p", "q", "r", "s",
                "t", "u", "v", "w", "x", "y", "z" >>
      [] charSetType = "Alphabetic" /\ capitalisation = "Mixed" ->
             << "a", "b", "c", "d", "e", "f", "g", "h", "i", "j", "k",
                "l", "m", "n", "o", "p", "q", "r", "s", "t", "u", "v",
                "w", "x", "y", "z", "A", "B", "C", "D", "E", "F", "G",
                "H", "I", "J", "K", "L", "M", "N", "O", "P", "Q", "R",
                "S", "T", "U", "V", "W", "X", "Y", "Z" >>
      [] charSetType = "Alphabetic" /\ capitalisation = "Uppercase" ->
             << "A", "B", "C", "D", "E", "F", "G", "H", "I", "J", "K",
                "L", "M", "N", "O", "P", "Q", "R", "S", "T", "U", "V",
                "W", "X", "Y", "Z", "A", "B", "C", "D", "E", "F", "G",
                "H", "I", "J", "K", "L", "M", "N", "O", "P", "Q", "R",
                "S", "T", "U", "V", "W", "X", "Y", "Z" >>
      [] charSetType = "Alphabetic" /\ capitalisation = "Lowercase" ->
             << "a", "b", "c", "d", "e", "f", "g", "h", "i", "j", "k",
                "l", "m", "n", "o", "p", "q", "r", "s", "t", "u", "v",
                "w", "x", "y", "z", "a", "b", "c", "d", "e", "f", "g",
                "h", "i", "j", "k", "l", "m", "n", "o", "p", "q", "r",
                "s", "t", "u", "v", "w", "x", "y", "z" >>
      [] charSetType = "Numeric" ->
             << "0", "1", "2", "3", "4", "5", "6", "7", "8", "9" >>
      [] charSetType = "Hex" /\ capitalisation = "Uppercase" ->
             << "0", "1", "2", "3", "4", "5", "6", "7", "8", "9", "A",
                "B", "C", "D", "E", "F" >>
      [] charSetType = "Hex" /\ capitalisation # "Uppercase" ->
             << "0", "1", "2", "3", "4", "5", "6", "7", "8", "9", "a",
                "b", "c", "d", "e", "f" >>
      [] charSetType = "Binary" ->
             << "0", "1" >>
      [] charSetType = "Octal" ->
             << "0", "1", "2", "3", "4", "5", "6", "7" >>

\* C10: for every pair getCharacterSet returns the reference composition
\* (pools concatenated by type, then forced to the requested case, Mixed
\* leaving the pool as composed).
C10_ReferenceComposition ==
    stage = "resolved" => resolved = Reference(parsed[2], parsed[3])

\* C10 witness: Hex resolved under Mixed, the case the composition order
\* decides.
C10_Witness ==
    /\ stage = "resolved"
    /\ parsed[2] = "Hex" /\ parsed[3] = "Mixed"
    /\ resolved = << "0", "1", "2", "3", "4", "5", "6", "7", "8", "9", "a",
                "b", "c", "d", "e", "f" >>

\* C11: each option is defaulted on its own: the parsed length is the given
\* one or 32, the parsed charSetType the given one or Alphanumeric, the
\* parsed capitalisation the given `capitalisation` or Mixed, whatever the
\* other options are; with no option given the call samples the Mixed
\* Alphanumeric alphabet for 32 characters.
C11_IndependentDefaults ==
    stage \in {"parsed", "resolved"} =>
        /\ parsed[1] = (IF options.length = << >> THEN 32 ELSE options.length[1])
        /\ parsed[2] = (IF options.charSetType = << >> THEN "Alphanumeric"
                        ELSE options.charSetType[1])
        /\ parsed[3] = (IF options.capitalisation = << >> THEN "Mixed"
                        ELSE options.capitalisation[1])
        /\ (/\ stage = "resolved"
            /\ options.length = << >> /\ options.charSetType = << >>
            /\ options.capitalisation = << >>)
              => /\ parsed = << 32, "Alphanumeric", "Mixed" >>
                 /\ resolved = Reference("Alphanumeric", "Mixed")

\* C11 witness: only the charSetType is given; length and capitalisation
\* are defaulted around it.
C11_Witness ==
    /\ stage = "resolved"
    /\ options.length = << >> /\ options.capitalisation = << >>
    /\ options.charSetType = << "Hex" >>
    /\ parsed = << 32, "Hex", "Mixed" >>

NothingToGenerate == RequestedLength <= 0

\* C12: a request with length 0 or a negative length completes with the
\* empty string and no byte request, in the blocking variant (returned "")
\* and in the callback variant (callback invoked once with "").
C12_EmptyWithoutByteRequest ==
    NothingToGenerate =>
        /\ syncPc # "idle" =>
              syncPc = "returned" /\ syncResult = << >> /\ syncReqs = << >>
        /\ asyncPc # "idle" =>
              /\ asyncReqs = << >>
              /\ asyncPc = "done"
              /\ cbCalls = << [error |-> << >>, generated |-> << << >> >>] >>

\* n = ceil(a / b), stated without the division.
IsCeil(n, a, b) == n * b >= a /\ (n - 1) * b < a

Last(s) == s[Len(s)]

\* C14 as claimed: the request pending in a refill round is sized from the
\* characters still missing at the start of that round.
C14_SizedFromRemaining ==
    /\ (syncPc = "randomBytes" /\ RequestedLength >= 1) =>
          IsCeil(Last(syncReqs), (length - Len(generated)) * 256,
                 getMaxByte(Len(charSet)))
    /\ (asyncPc = "waiting" /\ RequestedLength >= 1) =>
          IsCeil(Last(asyncReqs), (state.length - Len(state.generated)) * 256,
                 state.maxByte)

\* C14 as the code has it: every round of the blocking generate asks for
\* ceil(length * 256 / maxByte) bytes with the originally requested length,
\* and every round of the callback variant asks for the value of the global
\* `length`.
C14_SizedFromRequestedLength ==
    /\ \A r \in 1..Len(syncReqs) :
          IsCeil(syncReqs[r], RequestedLength * 256,
                 getMaxByte(Len(ResolvedFor(options))))
    /\ \A r \in 1..Len(asyncReqs) : asyncReqs[r] = globalLength

\* C14 witness: a second round is pending with one of two characters
\* already generated.
C14_Witness ==
    /\ syncPc = "randomBytes" /\ RequestedLength = 2
    /\ Len(syncReqs) = 2 /\ Len(generated) = 1

Accepted(bytes, maxByte) == SelectSeq(bytes, LAMBDA b : b < maxByte)

Take(s, n) == SubSeq(s, 1, IF n < Len(s) THEN n ELSE Len(s))

\* The reference operator: drop the bytes >= maxByte, keep the first n of
\* the rest, map each to the alphabet character at b mod k.
ReferenceString(bytes, alphabet, maxByte, n) ==
    LET kept == Take(Accepted(bytes, maxByte), n)
    IN  [i \in 1..Len(kept) |-> alphabet[(kept[i] % Len(alphabet)) + 1]]

\* C15: the string of a generation that succeeded is the reference operator
\* applied to the bytes of all its rounds in the order drawn, and the bytes
\* that contributed are exactly the first accepted ones: none after the
\* byte completing the output.
C15_ReferenceOperator ==
    /\ (syncPc = "returned" /\ ~syncFailed /\ RequestedLength >= 1) =>
          LET drawn == SubSeq(tape, 1, syncPos)
              maxByte == getMaxByte(Len(ResolvedFor(options)))
          IN  /\ syncResult = ReferenceString(drawn, ResolvedFor(options),
                                              maxByte, RequestedLength)
              /\ syncUsed = Take(Accepted(drawn, maxByte), RequestedLength)
    /\ asyncPc = "done" =>
          LET drawn == SubSeq(tape, 1, asyncPos)
          IN  /\ cbCalls[Len(cbCalls)].generated =
                     << ReferenceString(drawn, state.charSet, state.maxByte,
                                        state.length) >>
              /\ state.used = Take(Accepted(drawn, state.maxByte), state.length)

\* C15 witness: a blocking generation over two rounds that met a rejected
\* byte and left accepted bytes behind the completing one.
C15_Witness ==
    /\ syncPc = "returned" /\ ~syncFailed /\ Len(syncReqs) = 2
    /\ LET drawn == SubSeq(tape, 1, syncPos)
           maxByte == getMaxByte(Len(charSet))
       IN  /\ Len(Accepted(drawn, maxByte)) > RequestedLength
           /\ \E i \in 1..Len(drawn) : drawn[i] >= maxByte

\* C16, the part a finite run decides: a generation of at least one
\* character whose byte source never failed has not ended short of
\* completion, and asks for more bytes only while its output is short.
C16_NeverStopsShort ==
    (RequestedLength >= 1 /\ ~syncFailed /\ ~asyncFailed) =>
        /\ syncPc = "returned" => Len(syncResult) = RequestedLength
        /\ syncPc = "randomBytes" => Len(generated) < RequestedLength
        /\ asyncPc # "threw"
        /\ asyncPc = "waiting" => Len(state.generated) < RequestedLength
        /\ asyncPc = "done" =>
              Len(cbCalls[Len(cbCalls)].generated[1]) = RequestedLength

IsPrefix(s, t) == Len(s) <= Len(t) /\ SubSeq(t, 1, Len(s)) = s

\* C17: within a call the accumulated output only grows: in every step the
\* output before is a prefix of the output after, in the blocking and in
\* the callback variant, and it is never longer than the target length.
C17_OutputOnlyGrows ==
    /\ [][/\ IsPrefix(generated, generated')
          /\ IsPrefix(state.generated, state'.generated)]_vars
    /\ [](RequestedLength >= 0 =>
            /\ Len(generated) <= RequestedLength
            /\ Len(state.generated) <= RequestedLength)

\* C17 witness: a two-character generation whose first round produced one
\* character and whose second round added the other.
C17_Witness ==
    /\ syncPc = "returned" /\ ~syncFailed /\ RequestedLength = 2
    /\ Len(syncReqs) = 2 /\ Len(generated) = 2
    /\ Len(Accepted(SubSeq(tape, 1, syncReqs[1]), getMaxByte(Len(charSet)))) = 1

----------------------------------------------------------------------------
(* The rejection threshold on its own: getMaxByte applied to every alphabet *)
(* size up to MaxAlphabetSize.                                             *)

NoOptions ==
    [length |-> << >>, charSetType |-> << >>, capitalisation |-> << >>,
     capitalization |-> << >>]

\* No generate / generateAsync call has been made.
GenerationIdle ==
    /\ hasGlobalLength = FALSE /\ globalLength = 0 /\ tape = << >>
    /\ syncPc = "idle" /\ length = 0 /\ charSet = << >> /\ generated = << >>
    /\ syncUsed = << >> /\ syncPos = 0 /\ syncReqs = << >>
    /\ syncFailed = FALSE /\ syncResult = << >>
    /\ asyncPc = "idle" /\ state = NoState /\ asyncPos = 0 /\ asyncReqs = << >>
    /\ asyncFailed = FALSE /\ cbCalls = << >> /\ asyncThrown = "none"

InitMaxByte ==
    /\ alphabetSize \in 1..MaxAlphabetSize
    /\ threshold = 0
    /\ options = NoOptions
    /\ GenerationIdle
    /\ ResolveIdle
    /\ ConcurrentIdle

\* Line 109 / 149: this.getMaxByte(charSet.length)
GetMaxByte ==
    /\ alphabetSize >= 1
    /\ threshold = 0
    /\ threshold' = getMaxByte(alphabetSize)
    /\ UNCHANGED << options, hasGlobalLength, globalLength, tape, syncVars,
                    asyncVars, resolveVars, alphabetSize, concurrentVars >>

NextMaxByte == GetMaxByte

SpecMaxByte == InitMaxByte /\ [][NextMaxByte]_vars

\* The alphabet sizes of the defined character sets.
SupportedSizes == {2, 8, 10, 16, 26, 36, 52, 62}

Divides(k, n) == \E q \in 1..n : q * k = n

\* C18: for every supported alphabet size k, maxByte is the largest
\* multiple of k not exceeding 256, lies in 128..256, and is 256 exactly
\* when k divides 256.
C18_MaxByte ==
    (threshold # 0 /\ alphabetSize \in SupportedSizes) =>
        /\ Divides(alphabetSize, threshold)
        /\ threshold <= 256
        /\ threshold + alphabetSize > 256
        /\ 128 <= threshold
        /\ (threshold = 256) <=> Divides(alphabetSize, 256)

\* C18 witness: the threshold of the 62-character alphabet, 248.
C18_Witness ==
    alphabetSize = 62 /\ threshold = 248 /\ ~Divides(62, 256)

----------------------------------------------------------------------------
(* Several generateAsync calls pending at once on one RandomString          *)
(* instance. The class has no fields; what a call owns is the state object  *)
(* generateAsync creates, reached through the closure of its callbacks.     *)
(* Objects live in `heap` and a call holds a reference.                     *)

Calls == {1, 2}

\* The options of the concurrent calls: an alphabet with rejected bytes and
\* one without, each call with its own length.
ConcurrentRequests ==
    [length : {<< n >> : n \in 1..MaxLength},
     charSetType : {<< "Numeric" >>, << "Hex" >>},
     capitalisation : {<< "Mixed" >>},
     capitalization : {<< >>}]

NoCall(o) ==
    [pc |-> "idle", options |-> o, ref |-> 0, pending |-> 0,
     received |-> << >>, cbCalls |-> << >>, thrown |-> "none"]

InitConcurrent ==
    /\ hasGlobalLength \in BOOLEAN
    /\ globalLength \in (IF hasGlobalLength THEN 0..MaxGlobalLength ELSE {0})
    /\ heap = << >>
    /\ calls \in [Calls -> {NoCall(o) : o \in ConcurrentRequests}]
    /\ options = NoOptions
    /\ tape = << >>
    /\ syncPc = "idle" /\ length = 0 /\ charSet = << >> /\ generated = << >>
    /\ syncUsed = << >> /\ syncPos = 0 /\ syncReqs = << >>
    /\ syncFailed = FALSE /\ syncResult = << >>
    /\ asyncPc = "idle" /\ state = NoState /\ asyncPos = 0 /\ asyncReqs = << >>
    /\ asyncFailed = FALSE /\ cbCalls = << >> /\ asyncThrown = "none"
    /\ ResolveIdle
    /\ MaxByteIdle

\* A plausible slip: the state kept in one object of the instance, which
\* every call reuses.
sharedStateRef(h) == 1

\* Lines 145-150: the object literal of generateAsync is a new object.
newStateRef(h) == Len(h) + 1

\* The heap with object `obj` at reference `ref`.
Store(h, ref, obj) ==
    IF ref \in 1..Len(h) THEN [h EXCEPT ![ref] = obj] ELSE Append(h, obj)

\* generateStringAsync's byte request (lines 217-218) for call c.
callRequest(c) ==
    IF hasGlobalLength
    THEN [c EXCEPT !.pc = "waiting", !.pending = globalLength]
    ELSE [c EXCEPT !.pc = "threw", !.thrown = "ReferenceError"]

\* generateAsync on the shared instance, as call i.
CallGenerateAsync(i) ==
    /\ calls[i].pc = "idle"
    /\ LET p == parseOptions(calls[i].options)
           cs == getCharacterSet(p[2], p[3])
           ref == newStateRef(heap)
       IN  /\ heap' = Store(heap, ref,
                        [generated |-> << >>, charSet |-> cs, length |-> p[1],
                         maxByte |-> getMaxByte(Len(cs)), used |-> << >>])
           /\ calls' = [calls EXCEPT ![i] = callRequest([@ EXCEPT !.ref = ref])]
    /\ UNCHANGED << options, hasGlobalLength, globalLength, tape, syncVars,
                    asyncVars, resolveVars, maxByteVars >>

\* The randomBytes callback of call i (lines 218-229) with the arguments
\* (error, buffer): it works on the state object its closure refers to.
CallRandomBytesCallback(i, error, buffer) ==
    LET c == calls[i]
        afterError ==
            IF error # << >>
            THEN Append(c.cbCalls, [error |-> error, generated |-> << >>])
            ELSE c.cbCalls
    IN  IF buffer = << >>
        THEN /\ calls' = [calls EXCEPT ![i] =
                    [c EXCEPT !.cbCalls = afterError, !.pc = "threw",
                              !.thrown = "TypeError"]]
             /\ heap' = heap
        ELSE LET st == generateString(buffer[1], heap[c.ref])
                 newGenerated == st.generated
                 got == [c EXCEPT !.received = @ \o buffer[1]]
             IN  /\ heap' = [heap EXCEPT ![c.ref] = st]
                 /\ IF Len(newGenerated) < globalLength
                    THEN calls' = [calls EXCEPT ![i] =
                             callRequest([got EXCEPT !.cbCalls = afterError])]
                    ELSE calls' = [calls EXCEPT ![i] =
                             [got EXCEPT
                                 !.cbCalls = Append(afterError,
                                     [error |-> << >>, generated |-> << newGenerated >>]),
                                 !.pc = "done"]]

\* The byte values the source draws from for call i.
CallBytes(i) ==
    ByteSamples(getMaxByte(Len(ResolvedFor(calls[i].options))))

\* The byte source completes the pending request of call i with a buffer.
CallBytesArrive(i) ==
    /\ calls[i].pc = "waiting"
    /\ Len(calls[i].received) + calls[i].pending <= MaxCallBytes
    /\ \E buffer \in [1..calls[i].pending -> CallBytes(i)] :
          CallRandomBytesCallback(i, << >>, << buffer >>)
    /\ UNCHANGED << options, hasGlobalLength, globalLength, tape, syncVars,
                    asyncVars, resolveVars, maxByteVars >>

\* The byte source completes the pending request of call i with an error.
CallBytesFail(i) ==
    /\ calls[i].pc = "waiting"
    /\ CallRandomBytesCallback(i, << "Error" >>, << >>)
    /\ UNCHANGED << options, hasGlobalLength, globalLength, tape, syncVars,
                    asyncVars, resolveVars, maxByteVars >>

NextConcurrent ==
    \E i \in Calls :
        \/ CallGenerateAsync(i)
        \/ CallBytesArrive(i)
        \/ CallBytesFail(i)

SpecConcurrent == InitConcurrent /\ [][NextConcurrent]_vars

\* The state object a call's own request and own bytes determine.
OwnState(c) ==
    LET p == parseOptions(c.options)
        alphabet == getCharacterSet(p[2], p[3])
        maxByte == getMaxByte(Len(alphabet))
    IN  [generated |-> ReferenceString(c.received, alphabet, maxByte, p[1]),
         charSet |-> alphabet,
         length |-> p[1],
         maxByte |-> maxByte,
         used |-> Take(Accepted(c.received, maxByte), p[1])]

\* C13: under every interleaving of pending generateAsync calls, each
\* started call has a state object of its own, whose accumulated output,
\* alphabet, target length and maxByte are those its own request and the
\* bytes delivered to its own requests determine, and the string it
\* delivers is that output.
C13_CallsIsolated ==
    \A i \in Calls :
        calls[i].pc # "idle" =>
            /\ \A j \in Calls \ {i} :
                  calls[j].pc # "idle" => calls[j].ref # calls[i].ref
            /\ heap[calls[i].ref] = OwnState(calls[i])
            /\ calls[i].pc = "done" =>
                  calls[i].cbCalls =
                      << [error |-> << >>,
                          generated |-> << OwnState(calls[i]).generated >>] >>

\* C13 witness: two calls over different alphabets, both pending with a
\* round received and a character generated, the second round outstanding.
C13_Witness ==
    /\ calls # << >>
    /\ \A i \in Calls :
          /\ calls[i].pc = "waiting"
          /\ Len(calls[i].received) = 2
          /\ Len(heap[calls[i].ref].generated) = 1
    /\ heap[calls[1].ref].charSet # heap[calls[2].ref].charSet
    /\ heap[calls[1].ref].generated # heap[calls[2].ref].generated

====
